---------------------------- MODULE Spec2Model ----------------------------
(***************************************************************************)
(* Model of packages/lib-roblox/src/shared/instance.rs: the three queries  *)
(* over the class reflection database, find_property_info, class_is_a and  *)
(* class_is_a_service.  Every query is a walk over the superclass links of *)
(* db.classes; one call is one behaviour: Init draws the database and the  *)
(* arguments, and every action is one step of the function body (its entry *)
(* or one iteration of its loop).                                          *)
(***************************************************************************)
EXTENDS Naturals, Sequences, FiniteSets

VARIABLES
    classes,        \* db.classes: class name -> class descriptor
    op,             \* the function that was called
    instance_class, \* argument instance_class, as passed by the caller
    class_name,     \* argument class_name (class_is_a)
    property_name,  \* argument property_name (find_property_info)
    current_class,  \* the name the walk is at (current_class / mut instance_class)
    pc,             \* "start", "loop" or "done"
    result,         \* the returned Option once pc = "done"
    looked,         \* names passed to db.classes.get so far in this call
    revisited       \* TRUE once a name was passed to db.classes.get twice

vars == <<classes, op, instance_class, class_name, property_name,
          current_class, pc, result, looked, revisited>>

-----------------------------------------------------------------------------
(* Bounds of the model *)

\* number of class names the database of a class_is_a / class_is_a_service
\* call is drawn over
NumClasses == 3
\* number of class names the database of a find_property_info call is drawn over
NumPropClasses == 2

-----------------------------------------------------------------------------
(* Option<T> *)

None == [some |-> FALSE]
Some(v) == [some |-> TRUE, val |-> v]

\* the value of `result` while the call has not returned
Pending == [pending |-> TRUE]

-----------------------------------------------------------------------------
(* The universe the database and the arguments are drawn from *)

NamePool == <<"Instance", "Part", "BasePart", "PVInstance", "Model">>

ClassNames == {NamePool[i] : i \in 1..NumClasses}
PropClassNames == {NamePool[i] : i \in 1..NumPropClasses}

\* argument strings that are never a key of the database nor a superclass
\* name: a wrong-case name and the empty string (tests::is_a_class_invalid)
Strangers == {"part", ""}

PropNames == {"Material"}

\* rbx_reflection::DataType: Enum(name), Value(type) or any other variant
DataTypes ==
    { [kind |-> "Enum", arg |-> "Material"],
      [kind |-> "Value", arg |-> "Float32"],
      [kind |-> "Other", arg |-> ""] }

\* rbx_dom_weak Variant: a tagged value; Enum(u32) or a value of another type
DomValues ==
    { [variant |-> "Enum", value |-> 256],
      [variant |-> "Float32", value |-> 0] }

ServiceTag == "Service"

PartialMaps(D, R) == UNION {[S -> R] : S \in SUBSET D}

OptNames(names) == {None} \cup {Some(n) : n \in names}

\* class descriptors: superclass, tags, properties, default_properties
Descriptors(names, tagsets, props, defaults) ==
    [superclass : OptNames(names), tags : tagsets,
     properties : props, default_properties : defaults]

Schemas(names, descs) == UNION {[K -> descs] : K \in SUBSET names}

NoProps == PartialMaps({}, DataTypes)

-----------------------------------------------------------------------------
(* Map::get *)

Get(map, key) == IF key \in DOMAIN map THEN Some(map[key]) ELSE None


-----------------------------------------------------------------------------
(* find_property_info: the mapping of a found property to a PropertyInfo *)

\* faulty variant of EnumDefault: takes the ordinal of a default of any variant
EnumDefault_AnyVariant(prop_default) ==
    IF prop_default.some THEN Some(prop_default.val.value) ELSE None

\* enum_default: the default's ordinal when the default is Enum-tagged
EnumDefault(prop_default) ==
    IF prop_default.some /\ prop_default.val.variant = "Enum"
    THEN Some(prop_default.val.value)
    ELSE None

\* faulty variant of PropertyInfoOf: a data type that is neither Enum nor
\* Value still hands out the default
PropertyInfoOf_OtherKeepsDefault(data_type, prop_default) ==
    CASE data_type.kind = "Enum" ->
            [enum_name |-> Some(data_type.arg),
             enum_default |-> EnumDefault(prop_default),
             value_type |-> None,
             value_default |-> None]
      [] data_type.kind = "Value" ->
            [enum_name |-> None,
             enum_default |-> None,
             value_type |-> Some(data_type.arg),
             value_default |-> prop_default]
      [] OTHER ->
            [enum_name |-> None,
             enum_default |-> None,
             value_type |-> None,
             value_default |-> prop_default]

\* the match on prop_definition.data_type
PropertyInfoOf(data_type, prop_default) ==
    CASE data_type.kind = "Enum" ->
            [enum_name |-> Some(data_type.arg),
             enum_default |-> EnumDefault(prop_default),
             value_type |-> None,
             value_default |-> None]
      [] data_type.kind = "Value" ->
            [enum_name |-> None,
             enum_default |-> None,
             value_type |-> Some(data_type.arg),
             value_default |-> prop_default]
      [] OTHER ->
            [enum_name |-> None,
             enum_default |-> None,
             value_type |-> None,
             value_default |-> None]

\* faulty variant of FindFound: the default is taken from the class the call
\* started at, not from the class that declares the property
FindFound_StartDefaults(class) ==
    Some(PropertyInfoOf(class.properties[property_name],
                        Get(classes[instance_class].default_properties,
                            property_name)))

\* the return value when `class` declares property_name
FindFound(class) ==
    Some(PropertyInfoOf(class.properties[property_name],
                        Get(class.default_properties, property_name)))

-----------------------------------------------------------------------------
(* class_is_a / class_is_a_service: the tests of the walk *)

\* faulty variant of IsAShortCircuit: "Instance" is not special
IsAShortCircuit_IdentityOnly(ic, cn) == ic = cn

\* the test that returns Some(true) before the database is consulted
IsAShortCircuit(ic, cn) == cn = "Instance" \/ ic = cn

\* class_descriptor.tags.contains(&ClassTag::Service)
HasServiceTag(class) == ServiceTag \in class.tags

-----------------------------------------------------------------------------
(* Initial states: the database and the arguments of one call *)

InitCall ==
    /\ current_class = instance_class
    /\ pc = "start"
    /\ result = Pending
    /\ looked = {}
    /\ revisited = FALSE

\* class_is_a reads only the superclass of a descriptor
InitIsA ==
    /\ op = "class_is_a"
    /\ classes \in Schemas(ClassNames,
                           Descriptors(ClassNames, {{}}, NoProps, NoProps))
    /\ instance_class \in ClassNames \cup Strangers
    /\ class_name \in ClassNames \cup Strangers
    /\ property_name = ""

\* class_is_a_service reads the superclass and the tags
InitService ==
    /\ op = "class_is_a_service"
    /\ classes \in Schemas(ClassNames,
                           Descriptors(ClassNames, SUBSET {ServiceTag},
                                       NoProps, NoProps))
    /\ instance_class \in ClassNames \cup Strangers
    /\ class_name = ""
    /\ property_name = ""

\* find_property_info reads the superclass, properties and default_properties
InitFind ==
    /\ op = "find_property_info"
    /\ classes \in Schemas(PropClassNames,
                           Descriptors(PropClassNames, {{}},
                                       PartialMaps(PropNames, DataTypes),
                                       PartialMaps(PropNames, DomValues)))
    /\ instance_class \in PropClassNames
    /\ class_name = ""
    /\ property_name \in PropNames

Init == (InitIsA \/ InitService \/ InitFind) /\ InitCall

-----------------------------------------------------------------------------
(* Steps *)

\* db.classes.get(name), recorded
Lookup(name) ==
    /\ looked' = looked \cup {name}
    /\ revisited' = (revisited \/ name \in looked)

Return(value) ==
    /\ result' = value
    /\ pc' = "done"
    /\ UNCHANGED current_class

\* faulty variant of Advance: the walk stays at the class it is at
Advance_Stays(sup) ==
    /\ current_class' = current_class
    /\ UNCHANGED <<pc, result>>

\* the walk moves on to the superclass
Advance(sup) ==
    /\ current_class' = sup
    /\ UNCHANGED <<pc, result>>

Args == <<classes, op, instance_class, class_name, property_name>>

\* find_property_info up to its loop
FindEntry ==
    /\ op = "find_property_info" /\ pc = "start"
    /\ current_class' = instance_class
    /\ pc' = "loop"
    /\ UNCHANGED <<result, looked, revisited>>
    /\ UNCHANGED Args

\* faulty variant of FindLoop: a chain that ends at a class with no
\* superclass without a declaration yields an empty PropertyInfo
FindLoop_ExhaustedIsEmpty ==
    /\ op = "find_property_info" /\ pc = "loop"
    /\ Lookup(current_class)
    /\ LET got == Get(classes, current_class) IN
       IF ~got.some
       THEN Return(None)
       ELSE IF property_name \in DOMAIN got.val.properties
       THEN Return(FindFound(got.val))
       ELSE IF got.val.superclass.some
       THEN Advance(got.val.superclass.val)
       ELSE Return(Some([enum_name |-> None, enum_default |-> None,
                         value_type |-> None, value_default |-> None]))
    /\ UNCHANGED Args

\* one iteration of `while let Some(class) = db.classes.get(current_class)`
FindLoop ==
    /\ op = "find_property_info" /\ pc = "loop"
    /\ Lookup(current_class)
    /\ LET got == Get(classes, current_class) IN
       IF ~got.some
       THEN Return(None)
       ELSE IF property_name \in DOMAIN got.val.properties
       THEN Return(FindFound(got.val))
       ELSE IF got.val.superclass.some
       THEN Advance(got.val.superclass.val)
       ELSE Return(None)
    /\ UNCHANGED Args

\* faulty variant of IsAEntry: class_name is looked up, and a class_name
\* missing from the database makes the answer None
IsAEntry_ChecksTarget ==
    /\ op = "class_is_a" /\ pc = "start"
    /\ IF IsAShortCircuit(instance_class, class_name)
       THEN /\ Return(Some(TRUE))
            /\ UNCHANGED <<looked, revisited>>
       ELSE /\ Lookup(class_name)
            /\ IF class_name \in DOMAIN classes
               THEN /\ pc' = "loop"
                    /\ UNCHANGED <<current_class, result>>
               ELSE Return(None)
    /\ UNCHANGED Args

\* class_is_a up to its loop: the short-circuit
IsAEntry ==
    /\ op = "class_is_a" /\ pc = "start"
    /\ IF IsAShortCircuit(instance_class, class_name)
       THEN Return(Some(TRUE))
       ELSE /\ pc' = "loop"
            /\ UNCHANGED <<current_class, result>>
    /\ UNCHANGED <<looked, revisited>>
    /\ UNCHANGED Args

\* faulty variant of IsALoop: a name missing from the database ends the walk
\* with Some(false)
IsALoop_AbsentIsFalse ==
    /\ op = "class_is_a" /\ pc = "loop"
    /\ IF current_class = class_name
       THEN /\ Return(Some(TRUE))
            /\ UNCHANGED <<looked, revisited>>
       ELSE /\ Lookup(current_class)
            /\ LET got == Get(classes, current_class) IN
               IF ~got.some
               THEN Return(Some(FALSE))
               ELSE IF got.val.superclass.some
               THEN Advance(got.val.superclass.val)
               ELSE Return(Some(FALSE))
    /\ UNCHANGED Args

\* faulty variant of IsALoop: a class with no superclass ends the walk with
\* None, as a `?` on the superclass would
IsALoop_RootIsNone ==
    /\ op = "class_is_a" /\ pc = "loop"
    /\ IF current_class = class_name
       THEN /\ Return(Some(TRUE))
            /\ UNCHANGED <<looked, revisited>>
       ELSE /\ Lookup(current_class)
            /\ LET got == Get(classes, current_class) IN
               IF ~got.some
               THEN Return(None)
               ELSE IF got.val.superclass.some
               THEN Advance(got.val.superclass.val)
               ELSE Return(None)
    /\ UNCHANGED Args

\* one test of `while instance_class != class_name` and the body it guards
IsALoop ==
    /\ op = "class_is_a" /\ pc = "loop"
    /\ IF current_class = class_name
       THEN /\ Return(Some(TRUE))
            /\ UNCHANGED <<looked, revisited>>
       ELSE /\ Lookup(current_class)
            /\ LET got == Get(classes, current_class) IN
               IF ~got.some
               THEN Return(None)
               ELSE IF got.val.superclass.some
               THEN Advance(got.val.superclass.val)
               ELSE Return(Some(FALSE))
    /\ UNCHANGED Args

\* class_is_a_service up to its loop
ServiceEntry ==
    /\ op = "class_is_a_service" /\ pc = "start"
    /\ current_class' = instance_class
    /\ pc' = "loop"
    /\ UNCHANGED <<result, looked, revisited>>
    /\ UNCHANGED Args

\* faulty variant of ServiceLoop: the tag is tested only on the class that
\* ends the chain
ServiceLoop_TagAtRootOnly ==
    /\ op = "class_is_a_service" /\ pc = "loop"
    /\ Lookup(current_class)
    /\ LET got == Get(classes, current_class) IN
       IF ~got.some
       THEN Return(None)
       ELSE IF got.val.superclass.some
       THEN Advance(got.val.superclass.val)
       ELSE IF HasServiceTag(got.val)
       THEN Return(Some(TRUE))
       ELSE Return(Some(FALSE))
    /\ UNCHANGED Args

\* one iteration of the `loop` of class_is_a_service
ServiceLoop ==
    /\ op = "class_is_a_service" /\ pc = "loop"
    /\ Lookup(current_class)
    /\ LET got == Get(classes, current_class) IN
       IF ~got.some
       THEN Return(None)
       ELSE IF HasServiceTag(got.val)
       THEN Return(Some(TRUE))
       ELSE IF got.val.superclass.some
       THEN Advance(got.val.superclass.val)
       ELSE Return(Some(FALSE))
    /\ UNCHANGED Args

Next ==
    \/ FindEntry
    \/ FindLoop
    \/ IsAEntry
    \/ IsALoop
    \/ ServiceEntry
    \/ ServiceLoop

Spec == Init /\ [][Next]_vars

\* a call runs to its return: the body takes its next step whenever it has one
FairSpec == Spec /\ WF_vars(Next)

-----------------------------------------------------------------------------
(* The superclass chain of a class, as the properties below speak of it *)

\* c, superclass(c), ...: ends at the first name that is not a key of the
\* database, at a class with no superclass, or where the links close a cycle
RECURSIVE ChainFrom(_, _)
ChainFrom(c, seen) ==
    IF c \in seen THEN <<>>
    ELSE IF c \notin DOMAIN classes THEN <<c>>
    ELSE IF ~classes[c].superclass.some THEN <<c>>
    ELSE <<c>> \o ChainFrom(classes[c].superclass.val, seen \cup {c})

Chain(c) == ChainFrom(c, {})

ChainSet(c) == {Chain(c)[i] : i \in 1..Len(Chain(c))}

\* the names reached from c by following at least one superclass link
Ancestors(c) == {Chain(c)[i] : i \in 2..Len(Chain(c))}

Last(s) == s[Len(s)]

\* the chain ends at a class of the database that has no superclass
ChainResolves(c) ==
    /\ Last(Chain(c)) \in DOMAIN classes
    /\ ~classes[Last(Chain(c))].superclass.some

\* the chain ends at a name that is not a key of the database
ChainDangles(c) == Last(Chain(c)) \notin DOMAIN classes

\* the superclass links from c never lead back to a class of the chain
ChainAcyclic(c) == ChainResolves(c) \/ ChainDangles(c)

Min(S) == CHOOSE x \in S : \A y \in S : x <= y

Done(o) == op = o /\ pc = "done"

-----------------------------------------------------------------------------
(* class_is_a *)

\* C1: class_is_a returns Some(true) if and only if class_name is "Instance",
\* or instance_class equals class_name, or class_name is reached from
\* instance_class by following superclass links of classes of the database
\* (so class_is_a(C, C) and class_is_a(C, "Instance") are Some(true) for every
\* C, in the database or not).
C1_IsATrueIff ==
    Done("class_is_a") =>
        ( result = Some(TRUE)
          <=> \/ class_name = "Instance"
              \/ instance_class = class_name
              \/ class_name \in Ancestors(instance_class) )

\* C1 witness: Some(true) for a proper ancestor other than "Instance", reached
\* over two links.
C1_Witness ==
    /\ Done("class_is_a")
    /\ result = Some(TRUE)
    /\ class_name # "Instance"
    /\ Len(Chain(instance_class)) >= 3
    /\ class_name = Chain(instance_class)[3]

\* C2 as claimed: with no short-circuit, every name the walk arrives at is
\* looked up before it is compared, so when the walk arrives at a name that
\* is not a key of the database (the chain dangles and no class before its
\* end is class_name) the result is None.
C2_Original ==
    ( /\ Done("class_is_a")
      /\ class_name # "Instance"
      /\ class_name # instance_class
      /\ ChainDangles(instance_class)
      /\ \A i \in 1..(Len(Chain(instance_class)) - 1) :
            Chain(instance_class)[i] # class_name )
    => result = None

\* C2 amended: with no short-circuit, every name the walk arrives at is
\* compared with class_name before it is looked up: the result is None
\* exactly when the chain ends at a name that is not a key of the database
\* and no name of the chain, that last name included, is class_name; a
\* missing name equal to class_name gives Some(true).
C2_NoneIff ==
    ( /\ Done("class_is_a")
      /\ class_name # "Instance"
      /\ class_name # instance_class )
    => /\ result = None
          <=> /\ ChainDangles(instance_class)
              /\ class_name \notin ChainSet(instance_class)
       /\ ( /\ ChainDangles(instance_class)
            /\ class_name = Last(Chain(instance_class)) )
          => result = Some(TRUE)

\* C2 witness: the walk followed a link to a name that is not a key and
\* differs from class_name, and returned None.
C2_Witness ==
    /\ Done("class_is_a")
    /\ class_name # "Instance"
    /\ result = None
    /\ Len(Chain(instance_class)) >= 2
    /\ current_class = Last(Chain(instance_class))
    /\ current_class \notin DOMAIN classes

\* C3 as claimed: for distinct keys C1, C2 of the database with C2 no
\* ancestor of C1 in the superclass chain ("Instance" counting as an ancestor
\* of every class), class_is_a(C1, C2) is Some(false).
C3_Original ==
    ( /\ Done("class_is_a")
      /\ instance_class # class_name
      /\ instance_class \in DOMAIN classes
      /\ class_name \in DOMAIN classes
      /\ class_name # "Instance"
      /\ class_name \notin Ancestors(instance_class) )
    => result = Some(FALSE)

\* C3 amended: for distinct keys C1, C2 of the database with C2 no ancestor
\* of C1 ("Instance" counting as an ancestor of every class) and the chain
\* of C1 resolving in the database up to a class with no superclass,
\* class_is_a(C1, C2) is Some(false).
C3_FalseForUnrelatedKeys ==
    ( /\ Done("class_is_a")
      /\ instance_class # class_name
      /\ instance_class \in DOMAIN classes
      /\ class_name \in DOMAIN classes
      /\ class_name # "Instance"
      /\ ChainResolves(instance_class)
      /\ class_name \notin Ancestors(instance_class) )
    => result = Some(FALSE)

\* C3 witness: two distinct keys, the second not on the first's resolving
\* chain of at least two classes, answered Some(false).
C3_Witness ==
    /\ Done("class_is_a")
    /\ instance_class \in DOMAIN classes
    /\ class_name \in DOMAIN classes
    /\ class_name # "Instance"
    /\ ChainResolves(instance_class)
    /\ Len(Chain(instance_class)) >= 2
    /\ class_name \notin ChainSet(instance_class)
    /\ result = Some(FALSE)

\* C10: when the chain of instance_class resolves in the database up to a
\* class with no superclass, class_is_a returns Some(false) for every
\* class_name that is not "Instance" and not on the chain, a key of the
\* database or not, and class_name itself is never looked up.
C10_FalseWhenChainResolves ==
    ( /\ Done("class_is_a")
      /\ ChainResolves(instance_class)
      /\ class_name # "Instance"
      /\ class_name \notin ChainSet(instance_class) )
    => /\ result = Some(FALSE)
       /\ class_name \notin looked

\* C10 witness: Some(false) for a class_name that is no key of the database
\* (a wrong-case name or the empty string), after a walk over two classes.
C10_Witness ==
    /\ Done("class_is_a")
    /\ ChainResolves(instance_class)
    /\ Len(Chain(instance_class)) >= 2
    /\ class_name \in Strangers
    /\ result = Some(FALSE)

-----------------------------------------------------------------------------
(* class_is_a_service *)

Tagged(c) == c \in DOMAIN classes /\ ServiceTag \in classes[c].tags

\* the places of the chain where a walk that tests the tag of every class
\* it visits stops: a missing name, a tagged class, a class with no superclass
ServiceStops(ch) ==
    {i \in 1..Len(ch) : \/ ch[i] \notin DOMAIN classes
                        \/ Tagged(ch[i])
                        \/ ~classes[ch[i]].superclass.some}

\* C4: class_is_a_service walks instance_class and then its superclasses in
\* order and stops at the first visited name that is missing from the
\* database (None), carries the Service tag (Some(true)) or has no superclass
\* (Some(false)); it looks up exactly the names up to that one, so the tag of
\* every visited class is tested, and the three outcomes exclude each other.
C4_ServiceOutcome ==
    Done("class_is_a_service") =>
        LET ch == Chain(instance_class) IN
        /\ ServiceStops(ch) # {}
        /\ LET stop == Min(ServiceStops(ch)) IN
           /\ looked = {ch[i] : i \in 1..stop}
           /\ result = Some(TRUE) <=> Tagged(ch[stop])
           /\ result = None <=> ch[stop] \notin DOMAIN classes
           /\ result = Some(FALSE)
              <=> /\ stop = Len(ch)
                  /\ ChainResolves(instance_class)
                  /\ \A i \in 1..Len(ch) : ~Tagged(ch[i])

\* C4 witness: Some(true) for a class that is not tagged itself, has a tagged
\* superclass, and whose chain goes on above the tagged class.
C4_Witness ==
    /\ Done("class_is_a_service")
    /\ result = Some(TRUE)
    /\ Len(Chain(instance_class)) >= 3
    /\ ~Tagged(instance_class)
    /\ Tagged(Chain(instance_class)[2])
    /\ ~Tagged(Chain(instance_class)[3])

-----------------------------------------------------------------------------
(* find_property_info *)

Declares(c) ==
    c \in DOMAIN classes /\ property_name \in DOMAIN classes[c].properties

\* the places of the chain whose class declares property_name
Declaring(ch) == {i \in 1..Len(ch) : Declares(ch[i])}

\* the most-derived class of the chain that declares property_name
FirstDeclaring == 
    LET ch == Chain(instance_class) IN classes[ch[Min(Declaring(ch))]]

EnumTagged(defaults) ==
    property_name \in DOMAIN defaults /\ defaults[property_name].variant = "Enum"

\* C5: the result of find_property_info is built only from the first class
\* on the chain instance_class, superclass, ... that declares property_name:
\* the data type is that class's and the default is that class's, also when
\* the class is an ancestor of instance_class and also when a class further
\* up declares the property too.
C5_FirstDeclaringOnly ==
    ( Done("find_property_info") /\ result.some ) =>
        /\ Declaring(Chain(instance_class)) # {}
        /\ LET data_type == FirstDeclaring.properties[property_name]
               defaults == FirstDeclaring.default_properties
               info == result.val
           IN
           /\ info.enum_name.some <=> data_type.kind = "Enum"
           /\ info.enum_name.some => info.enum_name.val = data_type.arg
           /\ info.value_type.some <=> data_type.kind = "Value"
           /\ info.value_type.some => info.value_type.val = data_type.arg
           /\ info.enum_default.some
              <=> data_type.kind = "Enum" /\ EnumTagged(defaults)
           /\ info.enum_default.some
              => info.enum_default.val = defaults[property_name].value
           /\ info.value_default.some
              <=> data_type.kind = "Value" /\ property_name \in DOMAIN defaults
           /\ info.value_default.some
              => info.value_default.val = defaults[property_name]

\* C5 witness: a class and its superclass both declare the property, with
\* different data types and different defaults, and the call returned.
C5_Witness ==
    /\ Done("find_property_info")
    /\ result.some
    /\ Len(Chain(instance_class)) >= 2
    /\ Declares(instance_class)
    /\ Declares(Chain(instance_class)[2])
    /\ classes[instance_class].properties
         # classes[Chain(instance_class)[2]].properties
    /\ classes[instance_class].default_properties
         # classes[Chain(instance_class)[2]].default_properties

\* C6: find_property_info returns None exactly when no class on the
\* resolvable chain declares the property (the starting class is not in the
\* database, the chain ends undeclared at a class with no superclass, or a
\* superclass name is missing from the database), and Some(PropertyInfo),
\* possibly with every field empty, whenever a class on the chain declares it.
C6_NoneIffUndeclared ==
    Done("find_property_info") =>
        /\ result = None <=> Declaring(Chain(instance_class)) = {}
        /\ result.some <=> Declaring(Chain(instance_class)) # {}

\* C6 witness: a class of the database that does not declare the property and
\* names a superclass missing from the database: None.
C6_Witness ==
    /\ Done("find_property_info")
    /\ result = None
    /\ instance_class \in DOMAIN classes
    /\ ChainDangles(instance_class)

\* C7 as claimed: the property is declared Enum on an ancestor A of C and not
\* on C, and C's own default_properties has no Enum-tagged entry for it: the
\* result has enum_name set and enum_default empty.
C7_Original ==
    ( /\ Done("find_property_info")
      /\ instance_class \in DOMAIN classes
      /\ ~Declares(instance_class)
      /\ Declaring(Chain(instance_class)) # {}
      /\ FirstDeclaring.properties[property_name].kind = "Enum"
      /\ ~EnumTagged(classes[instance_class].default_properties) )
    => /\ result.some
       /\ result.val.enum_name = Some(FirstDeclaring.properties[property_name].arg)
       /\ result.val.enum_default = None

\* C7 amended: the property is declared Enum on an ancestor A of C and not on
\* C, and A's own default_properties (the declaring class's, whatever C's
\* holds) has no Enum-tagged entry for it: the result has enum_name set and
\* enum_default empty.
C7_EnumNoDefaultOnDeclaringClass ==
    ( /\ Done("find_property_info")
      /\ instance_class \in DOMAIN classes
      /\ ~Declares(instance_class)
      /\ Declaring(Chain(instance_class)) # {}
      /\ FirstDeclaring.properties[property_name].kind = "Enum"
      /\ ~EnumTagged(FirstDeclaring.default_properties) )
    => /\ result.some
       /\ result.val.enum_name = Some(FirstDeclaring.properties[property_name].arg)
       /\ result.val.enum_default = None

\* C7 witness: the ancestor declares the property Enum and holds a default
\* that is not Enum-tagged, the class itself holds an Enum-tagged default
\* for it, and enum_default is empty.
C7_Witness ==
    /\ Done("find_property_info")
    /\ instance_class \in DOMAIN classes
    /\ ~Declares(instance_class)
    /\ EnumTagged(classes[instance_class].default_properties)
    /\ Declaring(Chain(instance_class)) # {}
    /\ FirstDeclaring.properties[property_name].kind = "Enum"
    /\ property_name \in DOMAIN FirstDeclaring.default_properties
    /\ result.some
    /\ result.val.enum_default = None

\* C8: a returned PropertyInfo never has both enum_name and value_type set;
\* enum_default is set only when enum_name is set and the declaring class's
\* default is Enum-tagged; value_default is set only when value_type is set;
\* an Enum-typed property whose default is not Enum-tagged gives Some with
\* enum_default empty.
C8_PropertyInfoShape ==
    ( Done("find_property_info") /\ result.some ) =>
        LET info == result.val IN
        /\ ~(info.enum_name.some /\ info.value_type.some)
        /\ info.enum_default.some
           => info.enum_name.some /\ EnumTagged(FirstDeclaring.default_properties)
        /\ info.value_default.some => info.value_type.some
        /\ ( /\ FirstDeclaring.properties[property_name].kind = "Enum"
             /\ ~EnumTagged(FirstDeclaring.default_properties) )
           => info.enum_name.some /\ ~info.enum_default.some

\* C8 witness: the class declares the property Enum and holds a default for
\* it that is not Enum-tagged; the result has enum_name and no enum_default.
C8_Witness ==
    /\ Done("find_property_info")
    /\ Declares(instance_class)
    /\ classes[instance_class].properties[property_name].kind = "Enum"
    /\ property_name \in DOMAIN classes[instance_class].default_properties
    /\ ~EnumTagged(classes[instance_class].default_properties)
    /\ result.some
    /\ result.val.enum_name.some
    /\ ~result.val.enum_default.some

-----------------------------------------------------------------------------
(* Termination *)

\* C9 as claimed: whatever the superclass links of the database are, no
\* class is visited twice in one call.
C9_Original == ~revisited

\* C9 amended: when the superclass links followed from instance_class do not
\* lead back to a class already on the chain, each of find_property_info,
\* class_is_a and class_is_a_service returns, and it looks no name up twice
\* and only names of the chain, so it visits at most the classes of the
\* database (and looks up at most one name that is missing from it).
C9_TerminatesWhenAcyclic ==
    /\ [](ChainAcyclic(instance_class)
            => /\ ~revisited
               /\ looked \subseteq ChainSet(instance_class)
               /\ Cardinality(looked) <= Cardinality(DOMAIN classes) + 1)
    /\ <>(pc = "done" \/ ~ChainAcyclic(instance_class))

\* C9 witness: a call that walked a chain of three names and returned.
C9_Witness ==
    /\ pc = "done"
    /\ ChainAcyclic(instance_class)
    /\ Len(Chain(instance_class)) >= 3
    /\ Cardinality(looked) >= 3
    /\ ~revisited

=============================================================================
